---- MODULE Spec2Model ----
(***************************************************************************)
(* Model of semisup/backend.py: the SemisupModel training-session object,  *)
(* its loss-construction routines, the moving-average bookkeeping, the     *)
(* shared-parameter heads and the batched evaluation helper.               *)
(*                                                                         *)
(* Tensors are graph ops identified by their position in the graph; a loss *)
(* term records which label column, logits slice, mask column and weights  *)
(* it was built from.  Weights are kept in tenths (1.0 = 10, 0.4 = 4).     *)
(***************************************************************************)
EXTENDS Integers, Sequences, FiniteSets, TLC

(***************************************************************************)
(* Bounds of the model.                                                    *)
(***************************************************************************)
MaxCalls == 2        \* routine calls made on one session after construction
MaxNodes == 4        \* nodes of the tree structure
MaxDepthArg == 3     \* largest maxDepth given to the constructor
MaxImages == 250     \* largest image set given to calc_embedding
MaxSamples == 2      \* labelled samples N of a label batch
MaxLevels == 2       \* tree depth of the label batches of the walker target

Weights == {1, 2}            \* caller-supplied loss weights (whole numbers)
LabelValues == {0 - 1, 0, 1} \* class ids, -1 meaning "ignored"

NoCol == 0 - 1       \* "no column / no slice" in a loss term
NoError == "none"

Range(s) == {s[i] : i \in DOMAIN s}

RECURSIVE SumTo(_, _)
\* f[0] + ... + f[n-1]
SumTo(f, n) == IF n <= 0 THEN 0 ELSE f[n - 1] + SumTo(f, n - 1)

(***************************************************************************)
(* The tree structure (an external collaborator of backend.py).  A tree is *)
(* given by the depths of its nodes in node order: the root first, and a   *)
(* node of depth d > 0 only after some node of depth d - 1, which covers   *)
(* the breadth-first and the depth-first orderings.  Node k has width      *)
(* k + 1, so that distinct nodes have distinct offsets and widths.         *)
(***************************************************************************)
RECURSIVE DepthSeqs(_)
DepthSeqs(n) ==
  IF n = 1 THEN {<<0>>}
  ELSE LET shorter == DepthSeqs(n - 1)
       IN  shorter \cup
           {Append(s, d) : s \in {t \in shorter : Len(t) = n - 1}, d \in 1..(n - 1)}

ValidDepths(s) ==
  \A k \in 2..Len(s) : \E j \in 1..(k - 1) : s[j] = s[k] - 1

TreeDepth(depths) ==
  1 + (CHOOSE m \in Range(depths) : \A x \in Range(depths) : x <= m)

\* positions are 0-based, as in the source
MakeTree(depths) ==
  LET K == Len(depths)
      D == TreeDepth(depths)
      sizes == [k \in 0..(K - 1) |-> k + 1]
      lsizes == [d \in 0..(D - 1) |->
                  SumTo([k \in 0..(K - 1) |->
                           IF depths[k + 1] = d THEN sizes[k] ELSE 0], K)]
  IN  [ nodes         |-> [k \in 0..(K - 1) |-> depths[k + 1]],
        num_nodes     |-> K,
        depth         |-> D,
        node_sizes    |-> sizes,
        offsets       |-> [k \in 0..(K - 1) |-> SumTo(sizes, k)],
        level_sizes   |-> lsizes,
        level_offsets |-> [d \in 0..(D - 1) |-> SumTo(lsizes, d)] ]

Trees == {MakeTree(s) : s \in {t \in DepthSeqs(MaxNodes) : ValidDepths(t)}}

\* width of a hierarchical label record: K node ids, D level ids, K usage masks
LabelWidth(tree) == 2 * tree.num_nodes + tree.depth

VARIABLES
  treeStructure,  \* self.treeStructure
  maxDepth,       \* self.maxDepth
  emaStrict,      \* whether the average tracker rejects a value it already tracks
  varStore,       \* variable name -> number of parameter sets created for it
  graph,          \* the ops of the default graph, in creation order
  losses,         \* the global loss collection (ids of graph ops)
  walker_losses,  \* self.walker_losses
  visit_losses,   \* self.visit_losses
  logit_losses,   \* self.logit_losses
  loss_aba,       \* self.loss_aba (0 while unset)
  averages,       \* trackers created by self.ema, one value id per tracker
  update_ops,     \* the UPDATE_OPS collection: the value of each apply op
  train_loss,     \* self.train_loss: the op ids summed (<<>> while unset)
  calls,          \* number of routine calls made so far
  lastCall,       \* the routine called last, its arguments and its outcome
  images,         \* calc_embedding: the image set
  emb,            \* calc_embedding: the list of evaluated chunks
  pos,            \* calc_embedding: the loop variable i
  pc,             \* calc_embedding: position of the call
  result,         \* calc_embedding: the value returned
  labels,         \* walker target: the label batch, N rows of label columns
  equality_matrix,\* walker target: the equality matrix last built
  p_target        \* walker target: the target last built, entries <<num, den>>

sessVars == <<treeStructure, maxDepth, emaStrict, varStore, graph, losses,
              walker_losses, visit_losses, logit_losses, loss_aba, averages,
              update_ops, train_loss, calls, lastCall>>
embVars == <<images, emb, pos, pc, result>>
tgtVars == <<labels, equality_matrix, p_target>>
vars == <<sessVars, embVars, tgtVars>>

(***************************************************************************)
(* The session state threaded through one routine.  A routine that raises *)
(* leaves what it did before the raise and does nothing after it.          *)
(***************************************************************************)
Sess ==
  [ graph |-> graph, losses |-> losses, walker_losses |-> walker_losses,
    visit_losses |-> visit_losses, logit_losses |-> logit_losses,
    loss_aba |-> loss_aba, averages |-> averages, update_ops |-> update_ops,
    train_loss |-> train_loss, varStore |-> varStore, error |-> NoError ]

Op(kind, col, off, width, mask, weight, layer, arg) ==
  [ kind |-> kind, col |-> col, off |-> off, width |-> width, mask |-> mask,
    weight |-> weight, layer |-> layer, arg |-> arg ]

Tensor(kind, arg) == Op(kind, NoCol, NoCol, NoCol, NoCol, 0, 0, arg)

\* id of the op the next graph construction creates
NextId(S) == Len(S.graph) + 1

AddOp(S, op) ==
  IF S.error # NoError THEN S ELSE [S EXCEPT !.graph = Append(@, op)]

Raise(S, err) == IF S.error # NoError THEN S ELSE [S EXCEPT !.error = err]


(***************************************************************************)
(* tf.variable_scope('net', reuse=...) around a layer that gets its        *)
(* parameters by name: with reuse the parameters must exist and are bound, *)
(* without reuse they must not exist and are created.                      *)
(***************************************************************************)
ErrVarExists == "ValueError: variable already exists"
ErrVarMissing == "ValueError: variable does not exist"
ErrEmaDuplicate == "ValueError: moving average already computed"
ErrIndex == "IndexError: list index out of range"

VarNames == {"net/model", "net/fully_connected"}

GetVariable(S, name, reuse) ==
  IF S.error # NoError THEN S
  ELSE IF reuse
       THEN IF S.varStore[name] = 0 THEN Raise(S, ErrVarMissing) ELSE S
       ELSE IF S.varStore[name] = 0
            THEN [S EXCEPT !.varStore[name] = 1]
            ELSE Raise(S, ErrVarExists)

image_to_embedding(S, is_training) ==
  AddOp(GetVariable(S, "net/model", is_training), Tensor("embedding", 0))

embedding_to_logit(S, is_training) ==
  AddOp(GetVariable(S, "net/fully_connected", is_training), Tensor("logit", 0))

(***************************************************************************)
(* tf.losses.*: builds the loss op and registers it in the global loss     *)
(* collection.                                                             *)
(***************************************************************************)
TfLoss(S, op) ==
  IF S.error # NoError THEN S
  ELSE [S EXCEPT !.graph = Append(@, op), !.losses = Append(@, NextId(S))]

(***************************************************************************)
(* self.ema.apply([variable]): creates the tracker of a value.  For a      *)
(* value that already has one, the tracker library either raises or        *)
(* creates nothing, depending on its version (emaStrict).                  *)
(***************************************************************************)
\* a tracker library that creates a tracker on every apply
EmaApplyAlways(S, v) ==
  IF S.error # NoError THEN S ELSE [S EXCEPT !.averages = Append(@, v)]

EmaApply(S, v) ==
  IF S.error # NoError THEN S
  ELSE IF v \in Range(S.averages)
       THEN IF emaStrict THEN Raise(S, ErrEmaDuplicate) ELSE S
       ELSE [S EXCEPT !.averages = Append(@, v)]

add_average(S, variable) ==
  LET S1 == EmaApply(S, variable)
      S2 == IF S1.error # NoError THEN S1
            ELSE [S1 EXCEPT !.update_ops = Append(@, variable)]
  IN  AddOp(S2, Tensor("avg", variable))

create_walk_statistics(S, p_aba, col) ==
  LET estimate_error == NextId(S)
      S1 == AddOp(S, Op("esterr", col, NoCol, NoCol, NoCol, 0, 0, p_aba))
      S2 == add_average(S1, estimate_error)
  IN  add_average(S2, p_aba)

add_visit_loss(S, p, weight) ==
  LET visit_loss == NextId(S)
      S1 == TfLoss(S, Op("loss_visit", NoCol, NoCol, NoCol, NoCol, weight, 10, p))
  IN  IF S1.error # NoError THEN S1
      ELSE [S1 EXCEPT !.visit_losses = Append(@, visit_loss)]

\* match_ab, p_ab, p_ba, p_aba; p_ab is op NextId(S) + 1, p_aba op NextId(S) + 3
Associate(S) ==
  LET m == NextId(S)
  IN  AddOp(AddOp(AddOp(AddOp(S, Tensor("match_ab", 0)),
                        Tensor("p_ab", m)),
                  Tensor("p_ba", m)),
            Tensor("p_aba", m + 1))

add_semisup_loss(S, walker_weight, visit_weight) ==
  LET p_ab  == NextId(S) + 1
      p_aba == NextId(S) + 3
      S1 == Associate(S)
      S2 == create_walk_statistics(S1, p_aba, NoCol)
      l  == NextId(S2)
      S3 == TfLoss(S2, Op("loss_aba", NoCol, NoCol, NoCol, NoCol,
                          walker_weight, 10, p_aba))
      S4 == IF S3.error # NoError THEN S3 ELSE [S3 EXCEPT !.loss_aba = l]
  IN  add_visit_loss(S4, p_ab, visit_weight)

Min(a, b) == IF a <= b THEN a ELSE b

RECURSIVE TreeSemisupLevels(_, _, _, _, _)
\* the loop over d of add_tree_semisup_loss, from level d up to level n - 1
TreeSemisupLevels(S, d, n, p_aba, walker_weight) ==
  IF d >= n \/ S.error # NoError THEN S
  ELSE LET col == treeStructure.num_nodes + d
           S1 == create_walk_statistics(S, p_aba, col)
           l  == NextId(S1)
           S2 == TfLoss(S1, Op("loss_aba", col, NoCol, NoCol, NoCol,
                               walker_weight, 10, p_aba))
           S3 == IF S2.error # NoError THEN S2
                 ELSE [S2 EXCEPT !.walker_losses = Append(@, l)]
       IN  TreeSemisupLevels(S3, d + 1, n, p_aba, walker_weight)

add_tree_semisup_loss(S, walker_weight, visit_weight) ==
  LET p_ab  == NextId(S) + 1
      p_aba == NextId(S) + 3
      S1 == Associate(S)
      S2 == add_visit_loss(S1, p_ab, visit_weight)
  IN  TreeSemisupLevels(S2, 0, Min(maxDepth, treeStructure.depth),
                        p_aba, walker_weight)

add_logit_loss(S, weight) ==
  TfLoss(S, Op("loss_logit", NoCol, NoCol, NoCol, NoCol, weight, 10, 0))

RECURSIVE TreeLogitNodes(_, _, _, _)
\* the loop over the nodes of add_tree_logit_loss, from position k on
TreeLogitNodes(S, k, node_index, weight) ==
  IF k >= treeStructure.num_nodes \/ S.error # NoError THEN S
  ELSE IF treeStructure.nodes[k] >= maxDepth
       THEN TreeLogitNodes(S, k + 1, node_index, weight)
       ELSE LET node_usages_offset ==
                  LabelWidth(treeStructure) - treeStructure.num_nodes
                layer_weight == IF treeStructure.nodes[k] = 0 THEN 10 ELSE 4
                l  == NextId(S)
                S1 == TfLoss(S, Op("loss_logit", node_index,
                                   treeStructure.offsets[node_index],
                                   treeStructure.node_sizes[node_index],
                                   node_usages_offset + node_index,
                                   weight, layer_weight, 0))
                S2 == IF S1.error # NoError THEN S1
                      ELSE [S1 EXCEPT !.logit_losses = Append(@, l)]
            IN  TreeLogitNodes(S2, k + 1, node_index + 1, weight)

add_tree_logit_loss(S, weight) == TreeLogitNodes(S, 0, 0, weight)

RECURSIVE MultitaskLevels(_, _, _)
\* the loop over d of add_tree_multitask_logit_loss; the caller's weight is
\* not used, every term has weight 1.0 and no mask
MultitaskLevels(S, d, weight) ==
  IF d >= 2 \/ S.error # NoError THEN S
  ELSE IF d \notin DOMAIN treeStructure.level_offsets
          \/ (d + 1) \notin DOMAIN treeStructure.level_sizes
       THEN Raise(S, ErrIndex)
       ELSE LET l  == NextId(S)
                S1 == TfLoss(S, Op("loss_logit", treeStructure.num_nodes + d,
                                   treeStructure.level_offsets[d],
                                   treeStructure.level_sizes[d + 1],
                                   NoCol, 0, 10, 0))
                S2 == IF S1.error # NoError THEN S1
                      ELSE [S1 EXCEPT !.logit_losses = Append(@, l)]
            IN  MultitaskLevels(S2, d + 1, weight)

add_tree_multitask_logit_loss(S, weight) == MultitaskLevels(S, 0, weight)

\* a total that sums the three accumulators of the session instead
GetTotalLossOfAccumulators(S) ==
  S.walker_losses \o S.visit_losses \o S.logit_losses

\* tf.losses.get_total_loss(): the sum of the ops of the loss collection
GetTotalLoss(S) == S.losses

create_train_op(S) ==
  LET total == NextId(S)
      terms == GetTotalLoss(S)
      S1 == AddOp(S, Tensor("total_loss", 0))
      S2 == IF S1.error # NoError THEN S1 ELSE [S1 EXCEPT !.train_loss = terms]
      S3 == add_average(S2, total)
  IN  AddOp(S3, Tensor("train_op", total))

(***************************************************************************)
(* The session after construction: __init__ builds the evaluation heads.   *)
(***************************************************************************)
EmptySess ==
  [ graph |-> <<>>, losses |-> <<>>, walker_losses |-> <<>>,
    visit_losses |-> <<>>, logit_losses |-> <<>>, loss_aba |-> 0,
    averages |-> <<>>, update_ops |-> <<>>, train_loss |-> <<>>,
    varStore |-> [n \in VarNames |-> 0], error |-> NoError ]

Constructed ==
  embedding_to_logit(image_to_embedding(EmptySess, FALSE), FALSE)

Call(op, training, weight, arg, error) ==
  [ op |-> op, training |-> training, weight |-> weight, arg |-> arg,
    error |-> error ]

InitSession ==
  /\ treeStructure \in Trees
  /\ maxDepth \in 0..MaxDepthArg
  /\ emaStrict \in BOOLEAN
  /\ varStore = Constructed.varStore
  /\ graph = Constructed.graph
  /\ losses = Constructed.losses
  /\ walker_losses = Constructed.walker_losses
  /\ visit_losses = Constructed.visit_losses
  /\ logit_losses = Constructed.logit_losses
  /\ loss_aba = Constructed.loss_aba
  /\ averages = Constructed.averages
  /\ update_ops = Constructed.update_ops
  /\ train_loss = Constructed.train_loss
  /\ calls = 0
  /\ lastCall = Call("__init__", FALSE, 0, 0, Constructed.error)

\* the session as one routine leaves it
Commit(S, call) ==
  /\ calls < MaxCalls
  /\ calls' = calls + 1
  /\ varStore' = S.varStore
  /\ graph' = S.graph
  /\ losses' = S.losses
  /\ walker_losses' = S.walker_losses
  /\ visit_losses' = S.visit_losses
  /\ logit_losses' = S.logit_losses
  /\ loss_aba' = S.loss_aba
  /\ averages' = S.averages
  /\ update_ops' = S.update_ops
  /\ train_loss' = S.train_loss
  /\ lastCall' = [call EXCEPT !.error = S.error]
  /\ UNCHANGED <<treeStructure, maxDepth, emaStrict, embVars, tgtVars>>

ImageToEmbedding ==
  \E t \in BOOLEAN :
    Commit(image_to_embedding(Sess, t), Call("image_to_embedding", t, 0, 0, NoError))

EmbeddingToLogit ==
  \E t \in BOOLEAN :
    Commit(embedding_to_logit(Sess, t), Call("embedding_to_logit", t, 0, 0, NoError))

AddSemisupLoss ==
  \E w \in Weights :
    Commit(add_semisup_loss(Sess, w, 1), Call("add_semisup_loss", TRUE, w, 1, NoError))

AddTreeSemisupLoss ==
  \E w \in Weights :
    Commit(add_tree_semisup_loss(Sess, w, 1),
           Call("add_tree_semisup_loss", TRUE, w, 1, NoError))

AddVisitLoss ==
  \E w \in Weights :
    Commit(add_visit_loss(Sess, 0, w), Call("add_visit_loss", TRUE, w, 0, NoError))

AddLogitLoss ==
  \E w \in Weights :
    Commit(add_logit_loss(Sess, w), Call("add_logit_loss", TRUE, w, 0, NoError))

AddTreeLogitLoss ==
  \E w \in Weights :
    Commit(add_tree_logit_loss(Sess, w), Call("add_tree_logit_loss", TRUE, w, 0, NoError))

AddTreeMultitaskLogitLoss ==
  \E w \in Weights :
    Commit(add_tree_multitask_logit_loss(Sess, w),
           Call("add_tree_multitask_logit_loss", TRUE, w, 0, NoError))

\* add_average called by the driver, on a value already tracked or on the
\* newest op of the graph
AddAverage ==
  \E v \in Range(averages) \cup {Len(graph)} :
    Commit(add_average(Sess, v), Call("add_average", TRUE, 0, v, NoError))

CreateTrainOp ==
  Commit(create_train_op(Sess), Call("create_train_op", TRUE, 0, 0, NoError))

NextSession ==
  \/ ImageToEmbedding
  \/ EmbeddingToLogit
  \/ AddSemisupLoss
  \/ AddTreeSemisupLoss
  \/ AddVisitLoss
  \/ AddLogitLoss
  \/ AddTreeLogitLoss
  \/ AddTreeMultitaskLogitLoss
  \/ AddAverage
  \/ CreateTrainOp


(***************************************************************************)
(* calc_embedding / classify: the batched evaluation helper.               *)
(***************************************************************************)
test_batch_size == 100

ErrConcat == "ValueError: need at least one array to concatenate"

\* endpoint.eval on one chunk: one output sample per image of the chunk
Eval(endpoint, chunk) == [i \in DOMAIN chunk |-> <<endpoint, chunk[i]>>]

RECURSIVE EvalChunks(_, _, _, _)
\* for i in range(i, len(images), batch_size): emb.append(endpoint.eval(...))
EvalChunks(imgs, endpoint, i, batch_size) ==
  IF i >= Len(imgs) THEN <<>>
  ELSE <<Eval(endpoint, SubSeq(imgs, i + 1, Min(i + batch_size, Len(imgs))))>>
       \o EvalChunks(imgs, endpoint, i + batch_size, batch_size)

RECURSIVE Flatten(_)
Flatten(chunks) ==
  IF chunks = <<>> THEN <<>> ELSE Head(chunks) \o Flatten(Tail(chunks))

\* np.concatenate raises on an empty list of arrays
NpConcatenate(chunks) ==
  IF chunks = <<>> THEN [error |-> ErrConcat, value |-> <<>>]
  ELSE [error |-> NoError, value |-> Flatten(chunks)]

InitEmbedIdle ==
  /\ images = <<>>
  /\ emb = <<>>
  /\ pos = 0
  /\ pc = "idle"
  /\ result = [error |-> NoError, value |-> <<>>]

InitTargetIdle ==
  /\ labels = <<>>
  /\ equality_matrix = <<>>
  /\ p_target = <<>>

InitEmbed ==
  /\ images \in {[i \in 1..L |-> i] : L \in 0..MaxImages}
  /\ emb = <<>>
  /\ pos = 0
  /\ pc = "idle"
  /\ result = [error |-> NoError, value |-> <<>>]
  /\ InitTargetIdle
  /\ treeStructure = MakeTree(<<0>>)
  /\ maxDepth = 0
  /\ emaStrict = FALSE
  /\ varStore = Constructed.varStore
  /\ graph = Constructed.graph
  /\ losses = <<>> /\ walker_losses = <<>> /\ visit_losses = <<>>
  /\ logit_losses = <<>> /\ loss_aba = 0 /\ averages = <<>>
  /\ update_ops = <<>> /\ train_loss = <<>> /\ calls = 0
  /\ lastCall = Call("__init__", FALSE, 0, 0, NoError)

calc_embedding(endpoint) ==
  /\ pc = "idle"
  /\ emb' = EvalChunks(images, endpoint, 0, test_batch_size)
  /\ pos' = IF Len(images) = 0 THEN 0
            ELSE ((Len(images) - 1) \div test_batch_size) * test_batch_size
  /\ result' = NpConcatenate(emb')
  /\ pc' = "done"
  /\ lastCall' = Call("calc_embedding", FALSE, 0, endpoint, NoError)
  /\ UNCHANGED <<images, tgtVars, treeStructure, maxDepth, emaStrict, varStore,
                 graph, losses, walker_losses, visit_losses, logit_losses,
                 loss_aba, averages, update_ops, train_loss, calls>>

\* calc_embedding on self.test_emb (op 1 of the graph)
CalcEmbedding == calc_embedding(1)

\* classify: calc_embedding on self.test_logit (op 2 of the graph)
Classify == calc_embedding(2)

NextEmbed == CalcEmbedding \/ Classify

(***************************************************************************)
(* The walker target: equality matrix and row normalisation, as built by   *)
(* add_semisup_loss from the flat labels and by add_tree_semisup_loss from *)
(* the label column of each level.  Entries of p_target are fractions      *)
(* <<numerator, denominator>>; a zero denominator is a division by zero.   *)
(***************************************************************************)
\* an equality matrix that leaves out the ignored label -1
EqualityMatrixMasked(lab) ==
  [i \in DOMAIN lab |->
     [j \in DOMAIN lab |-> IF lab[i] = lab[j] /\ lab[i] # 0 - 1 THEN 1 ELSE 0]]

\* tf.equal(tf.reshape(labels, [-1, 1]), labels), cast to float
EqualityMatrix(lab) ==
  [i \in DOMAIN lab |-> [j \in DOMAIN lab |-> IF lab[i] = lab[j] THEN 1 ELSE 0]]

RECURSIVE SeqSum(_)
SeqSum(s) == IF s = <<>> THEN 0 ELSE Head(s) + SeqSum(Tail(s))

\* equality_matrix / tf.reduce_sum(equality_matrix, [1], keep_dims=True)
RowNormalise(eq) ==
  [i \in DOMAIN eq |-> [j \in DOMAIN eq[i] |-> <<eq[i][j], SeqSum(eq[i])>>]]

\* tf.slice(labels, [0, col], [num_samples, 1]) reshaped to a vector
LabelColumn(lab, col) == [i \in DOMAIN lab |-> lab[i][col]]

\* hierarchical label records of a tree: node ids, level ids, usage masks;
\* the level ids range over the label values
LabelRecords(tree) ==
  LET K == tree.num_nodes
      W == LabelWidth(tree)
  IN  {r \in [0..(W - 1) -> LabelValues] :
         \A c \in 0..(W - 1) :
           /\ c < K => r[c] = 0
           /\ c >= K + tree.depth => r[c] = 1}

RECURSIVE SeqsUpTo(_, _)
\* the sequences over S of length at most n
SeqsUpTo(S, n) ==
  IF n = 0 THEN {<<>>}
  ELSE LET shorter == SeqsUpTo(S, n - 1)
       IN  shorter \cup
           {Append(s, x) : s \in {t \in shorter : Len(t) = n - 1}, x \in S}

\* the chain trees root - child - ... of depth at most MaxLevels
RECURSIVE Chain(_)
Chain(n) == IF n = 1 THEN <<0>> ELSE Append(Chain(n - 1), n - 1)

InitTarget ==
  /\ treeStructure \in {MakeTree(Chain(n)) : n \in 1..MaxLevels}
  /\ maxDepth \in 0..MaxDepthArg
  /\ \/ labels \in {[rank |-> 1, v |-> x] : x \in SeqsUpTo(LabelValues, MaxSamples)}
     \/ labels \in {[rank |-> 2, v |-> x] :
                      x \in SeqsUpTo(LabelRecords(treeStructure), MaxSamples)}
  /\ equality_matrix = <<>>
  /\ p_target = <<>>
  /\ InitEmbedIdle
  /\ emaStrict = FALSE
  /\ varStore = Constructed.varStore
  /\ graph = Constructed.graph
  /\ losses = <<>> /\ walker_losses = <<>> /\ visit_losses = <<>>
  /\ logit_losses = <<>> /\ loss_aba = 0 /\ averages = <<>>
  /\ update_ops = <<>> /\ train_loss = <<>> /\ calls = 0
  /\ lastCall = Call("__init__", FALSE, 0, 0, NoError)

WalkerTarget(lab, call) ==
  /\ equality_matrix' = EqualityMatrix(lab)
  /\ p_target' = RowNormalise(equality_matrix')
  /\ lastCall' = call
  /\ UNCHANGED <<labels, embVars, treeStructure, maxDepth, emaStrict, varStore,
                 graph, losses, walker_losses, visit_losses, logit_losses,
                 loss_aba, averages, update_ops, train_loss, calls>>

\* the target of add_semisup_loss, from the flat labels
FlatTarget ==
  /\ labels.rank = 1
  /\ WalkerTarget(labels.v, Call("add_semisup_loss", TRUE, 0, NoCol, NoError))

\* the target of level d of add_tree_semisup_loss
TreeTarget ==
  /\ labels.rank = 2
  /\ \E d \in 0..(Min(maxDepth, treeStructure.depth) - 1) :
       WalkerTarget(LabelColumn(labels.v, treeStructure.num_nodes + d),
                    Call("add_tree_semisup_loss", TRUE, 0,
                         treeStructure.num_nodes + d, NoError))

NextTarget == FlatTarget \/ TreeTarget

(***************************************************************************)
(* Specifications.                                                         *)
(***************************************************************************)
Init == InitSession /\ InitEmbedIdle /\ InitTargetIdle

Next == NextSession

Spec == Init /\ [][Next]_vars

SpecEmbed == InitEmbed /\ [][NextEmbed]_vars

SpecTarget == InitTarget /\ [][NextTarget]_vars


(***************************************************************************)
(* Properties.                                                             *)
(***************************************************************************)
LossKinds == {"loss_aba", "loss_visit", "loss_logit"}

\* ids of the graph ops that satisfy P
OpsWhere(P(_)) == {k \in DOMAIN graph : P(graph[k])}

Count(s, x) == Cardinality({i \in DOMAIN s : s[i] = x})

IsFlatWalker(op) == op.kind = "loss_aba" /\ op.col = NoCol
IsVisit(op) == op.kind = "loss_visit"
IsFlatLogit(op) == op.kind = "loss_logit" /\ op.col = NoCol
IsTreeTerm(op) == op.kind \in LossKinds /\ op.col # NoCol
IsLoss(op) == op.kind \in LossKinds

\* C1: after any sequence of flat loss-construction calls, walker_losses has
\* one entry per add_semisup_loss call (one flat walker term each),
\* visit_losses one entry per add_visit_loss invocation (one visit term each)
\* and logit_losses one entry per add_logit_loss call (one flat logit term
\* each).
C1_OneEntryPerFlatCall ==
  OpsWhere(IsTreeTerm) = {} =>
    /\ Len(walker_losses) = Cardinality(OpsWhere(IsFlatWalker))
    /\ Len(visit_losses) = Cardinality(OpsWhere(IsVisit))
    /\ Len(logit_losses) = Cardinality(OpsWhere(IsFlatLogit))

\* C2: every image_to_embedding / embedding_to_logit invocation made after
\* construction, in either mode, binds to the one parameter set of the
\* session: it does not fail and no variable gets a second parameter set.
C2_HeadsShareParameters ==
  lastCall.op \in {"image_to_embedding", "embedding_to_logit"} =>
    /\ lastCall.error = NoError
    /\ \A n \in VarNames : varStore[n] = 1

\* C3: add_average never gives a value two trackers: a value that is already
\* registered gets no second tracker (the call is rejected, or registers
\* nothing), and every value an apply op was recorded for has its tracker.
C3_OneTrackerPerValue ==
  /\ \A i, j \in DOMAIN averages : averages[i] = averages[j] => i = j
  /\ Range(update_ops) \subseteq Range(averages)
  /\ lastCall.error = ErrEmaDuplicate => emaStrict

\* C3 witness: add_average was called on a value that already had a tracker,
\* and the value still has exactly one.
C3_Witness ==
  /\ lastCall.op = "add_average"
  /\ Count(update_ops, lastCall.arg) = 2
  /\ Count(averages, lastCall.arg) = 1

\* C4: for every image set of length L >= 0, calc_embedding evaluates the
\* endpoint on consecutive chunks of at most test_batch_size images, every
\* image once, and returns L samples in the order of the input.
C4_BatchedEmbedComplete ==
  pc = "done" =>
    /\ result.error = NoError
    /\ Len(result.value) = Len(images)
    /\ \A i \in DOMAIN images : result.value[i] = <<lastCall.arg, images[i]>>
    /\ \A c \in DOMAIN emb : Len(emb[c]) \in 1..test_batch_size
    /\ Flatten(emb) = Eval(lastCall.arg, images)

\* C5: every row i of the equality matrix has entry [i,i] = 1 and row sum
\* >= 1, so no entry of p_target is a division by zero, every row of p_target
\* sums to 1 and p_target[i,i] > 0.
C5_TargetRowsNormalised ==
  /\ DOMAIN p_target = DOMAIN equality_matrix
  /\ \A i \in DOMAIN equality_matrix :
       /\ equality_matrix[i][i] = 1
       /\ SeqSum(equality_matrix[i]) >= 1
       /\ \A j \in DOMAIN p_target[i] : p_target[i][j][2] > 0
       /\ SeqSum([j \in DOMAIN p_target[i] |-> p_target[i][j][1]])
            = p_target[i][i][2]
       /\ p_target[i][i][1] > 0

\* C5 witness: the target of a tree level whose label column holds -1 and
\* two different labels.
C5_Witness ==
  /\ lastCall.op = "add_tree_semisup_loss"
  /\ Len(p_target) = 2
  /\ labels.v[1][lastCall.arg] = 0 - 1
  /\ equality_matrix[1][2] = 0
  /\ p_target[1][1] = <<1, 1>>

RECURSIVE KeptNodes(_)
\* the positions below k of the nodes with depth < maxDepth, in node order
KeptNodes(k) ==
  IF k = 0 THEN <<>>
  ELSE IF treeStructure.nodes[k - 1] < maxDepth
       THEN Append(KeptNodes(k - 1), k - 1)
       ELSE KeptNodes(k - 1)

\* C6: one call of add_tree_logit_loss appends one entry to logit_losses for
\* each node with depth < maxDepth and none for the others; the entry of the
\* node at position k is built from logits columns
\* [offsets[k], offsets[k] + node_sizes[k]), label column k and mask column
\* (labelWidth - K) + k, with depth weight 1.0 at depth 0 and 0.4 below.
C6_TreeLogitPerNode ==
  [][lastCall'.op = "add_tree_logit_loss" =>
       LET kept == KeptNodes(treeStructure.num_nodes)
           old  == Len(logit_losses)
       IN  /\ Len(logit_losses') = old + Len(kept)
           /\ SubSeq(logit_losses', 1, old) = logit_losses
           /\ \A j \in DOMAIN kept :
                LET k == kept[j]
                    e == graph'[logit_losses'[old + j]]
                IN  /\ e.kind = "loss_logit"
                    /\ e.off = treeStructure.offsets[k]
                    /\ e.width = treeStructure.node_sizes[k]
                    /\ e.col = k
                    /\ e.mask = (LabelWidth(treeStructure)
                                   - treeStructure.num_nodes) + k
                    /\ e.layer = IF treeStructure.nodes[k] = 0 THEN 10 ELSE 4
  ]_vars

\* C7: each call of add_tree_semisup_loss appends exactly min(maxDepth, D)
\* entries to walker_losses, in increasing level order, the entry of level d
\* built from label column K + d; it appends exactly one entry to
\* visit_losses and leaves logit_losses unchanged.
C7_TreeSemisupPerLevel ==
  [][lastCall'.op = "add_tree_semisup_loss" =>
       LET n   == Min(maxDepth, treeStructure.depth)
           old == Len(walker_losses)
       IN  /\ Len(walker_losses') = old + n
           /\ SubSeq(walker_losses', 1, old) = walker_losses
           /\ \A d \in 0..(n - 1) :
                LET e == graph'[walker_losses'[old + d + 1]]
                IN  e.kind = "loss_aba" /\ e.col = treeStructure.num_nodes + d
           /\ Len(visit_losses') = Len(visit_losses) + 1
           /\ logit_losses' = logit_losses
  ]_vars

C9_MultitaskPerLevel ==
  [][(lastCall'.op = "add_tree_multitask_logit_loss"
        /\ lastCall'.error = NoError) =>
       LET old == Len(logit_losses)
       IN  /\ Len(logit_losses') = old + 2
           /\ SubSeq(logit_losses', 1, old) = logit_losses
           /\ \A d \in 0..1 :
                LET e == graph'[logit_losses'[old + d + 1]]
                IN  /\ e.kind = "loss_logit"
                    /\ e.col = treeStructure.num_nodes + d
                    /\ e.off = treeStructure.level_offsets[d]
                    /\ e.width = treeStructure.level_sizes[d]
                    /\ e.layer = 10
                    /\ e.weight = 0
                    /\ e.mask = NoCol
  ]_vars

\* C10: in a session whose only call is one add_semisup_loss or one
\* add_tree_semisup_loss, add_average is invoked at most once per value: no
\* value has two apply ops and no invocation is rejected as a duplicate.
C10_AverageOncePerValue ==
  (calls = 1 /\ lastCall.op \in {"add_semisup_loss", "add_tree_semisup_loss"}) =>
    /\ \A v \in Range(update_ops) : Count(update_ops, v) = 1
    /\ lastCall.error # ErrEmaDuplicate

====
